---- MODULE Spec2Model ----
(***************************************************************************)
(* ParserV2 of dpy_debugger (src/__main__.py): the class index, the       *)
(* textual parent-class resolver, the two search algorithms of parse_data *)
(* (a generator) and the query normaliser parse_attributes.               *)
(*                                                                         *)
(* Text.  A Python str is a sequence of lexemes.  A lexeme is an          *)
(* indivisible run of characters ("foo", "def ", "return 1"); the          *)
(* characters the code looks at one by one are lexemes of their own:      *)
(* "(", ")", ".", ", ", the newline, a space, a four-space indent, and    *)
(* the namespace prefix "discord".  str methods act on lexemes the way    *)
(* they act on characters.  Python indices are 0-based and kept so; the   *)
(* operators below convert at the last moment.                            *)
(***************************************************************************)
EXTENDS Integers, Sequences, FiniteSets, TLC

NL == "\n"
INDENT == "    "
Whitespace == {" ", INDENT, NL}
Uppercase == {"A", "B", "C", "Z", "Embed"}

Min(a, b) == IF a < b THEN a ELSE b
Max(a, b) == IF a < b THEN b ELSE a

\* s[i] for a 0-based i that is in range
At(s, i) == s[i + 1]
InRange(s, i) == 0 <= i /\ i < Len(s)

\* s[a:b], Python slicing (negative bounds count from the end, all clamped)
PySlice(s, a, b) ==
    LET n  == Len(s)
        lo == IF a < 0 THEN Max(n + a, 0) ELSE Min(a, n)
        hi == IF b < 0 THEN Max(n + b, 0) ELSE Min(b, n)
    IN  IF lo >= hi THEN <<>> ELSE SubSeq(s, lo + 1, hi)

RECURSIVE lstrip(_, _)
lstrip(s, chars) ==
    IF s # <<>> /\ Head(s) \in chars THEN lstrip(Tail(s), chars) ELSE s

RECURSIVE rstrip(_, _)
rstrip(s, chars) ==
    IF s # <<>> /\ s[Len(s)] \in chars
    THEN rstrip(SubSeq(s, 1, Len(s) - 1), chars)
    ELSE s

strip(s, chars) == rstrip(lstrip(s, chars), chars)

\* str.find / str.rfind of a one-lexeme needle: 0-based position, -1 if absent.
\* The scan is at 1-based i.
RECURSIVE find_from(_, _, _)
find_from(s, c, i) ==
    IF i > Len(s) THEN -1 ELSE IF s[i] = c THEN i - 1 ELSE find_from(s, c, i + 1)

find(s, c) == find_from(s, c, 1)

RECURSIVE rfind_from(_, _, _)
rfind_from(s, c, i) ==
    IF i < 1 THEN -1 ELSE IF s[i] = c THEN i - 1 ELSE rfind_from(s, c, i - 1)

rfind(s, c) == rfind_from(s, c, Len(s))

\* str.split(sep): always at least one piece.  The scan is at 1-based i, the
\* piece being read began at from.
RECURSIVE split_at(_, _, _, _)
split_at(s, sep, from, i) ==
    IF i > Len(s) THEN <<SubSeq(s, from, Len(s))>>
    ELSE IF s[i] = sep THEN <<SubSeq(s, from, i - 1)>> \o split_at(s, sep, i + 1, i + 1)
    ELSE split_at(s, sep, from, i + 1)

split(s, sep) == split_at(s, sep, 1, 1)

\* sep.join(pieces)
RECURSIVE join(_, _)
join(sep, pieces) ==
    IF pieces = <<>> THEN <<>>
    ELSE IF Len(pieces) = 1 THEN pieces[1]
    ELSE pieces[1] \o <<sep>> \o join(sep, Tail(pieces))

\* str.splitlines(): no piece for the text after a final line break
splitlines(s) ==
    LET parts == split(s, NL)
    IN  IF parts[Len(parts)] = <<>> THEN SubSeq(parts, 1, Len(parts) - 1) ELSE parts

startswith(s, c) == s # <<>> /\ s[1] = c

(***************************************************************************)
(* Source units.  A unit is a sequence of top-level statements drawn from *)
(* a catalogue, after some blank lines and before some more.  Layout      *)
(* writes its text and, from the same walk, the tree ast.parse returns    *)
(* for that text: every node with its 1-based first and last line.        *)
(***************************************************************************)
MaxTop == 2
MaxBlank == 1

Stmt(kind, rows) ==
    [kind |-> kind, name |-> <<>>, bases |-> <<>>, params |-> <<>>,
     body |-> <<>>, rows |-> rows]
Row(txt) == [hang |-> TRUE, txt |-> txt]
Flush(txt) == [hang |-> FALSE, txt |-> txt]
Def(kind, name, params, body) ==
    [kind |-> kind, name |-> <<name>>, bases |-> <<>>, params |-> params,
     body |-> body, rows |-> <<>>]
Class(name, bases, body) ==
    [kind |-> "ClassDef", name |-> <<name>>, bases |-> bases, params |-> <<>>,
     body |-> body, rows |-> <<>>]

Return1 == Stmt("Return", <<Row(<<"return 1">>)>>)
Pass == Stmt("Pass", <<Row(<<"pass">>)>>)
\* a parenthesised value continued on an unindented line
ReturnParen == Stmt("Return", <<Row(<<"return (">>), Flush(<<"1">>), Row(<<")">>)>>)

Catalogue ==
    { Def("FunctionDef", "foo", <<>>, <<Return1>>),
      Class("A", <<>>, << Def("FunctionDef", "foo", <<"self">>, <<Return1>>),
                          Def("AsyncFunctionDef", "foo", <<"self">>, <<Pass, Return1>>) >>),
      Class("B", <<"A">>, <<Pass>>),
      Class("A", <<"B", "object">>,
            << Def("FunctionDef", "foo", <<"self">>, <<ReturnParen>>) >>),
      Class("A", <<"A">>, << Pass, Def("FunctionDef", "bar", <<"self">>, <<Return1>>) >>) }

Indent(d) == [i \in 1..d |-> INDENT]

HeaderText(item) ==
    IF item.kind = "ClassDef"
    THEN <<"class ">> \o item.name
         \o (IF item.bases = <<>> THEN <<>>
             ELSE <<"(">> \o join(", ", [i \in 1..Len(item.bases) |-> <<item.bases[i]>>])
                  \o <<")">>)
         \o <<":">>
    ELSE (IF item.kind = "AsyncFunctionDef" THEN <<"async ">> ELSE <<>>)
         \o <<"def ">> \o item.name \o <<"(">> \o item.params \o <<")", ":">>

\* an ast node: kind is its class, bases the names of a ClassDef's base expressions
Node(kind, name, bases, lineno, end_lineno, body) ==
    [kind |-> kind, name |-> name, bases |-> bases, lineno |-> lineno,
     end_lineno |-> end_lineno, body |-> body]

RECURSIVE Layout(_, _, _)
RECURSIVE LayoutBody(_, _, _)
Layout(item, depth, ln) ==
    IF item.rows # <<>>
    THEN [node  |-> Node(item.kind, <<>>, <<>>, ln, ln + Len(item.rows) - 1, <<>>),
          lines |-> [i \in 1..Len(item.rows) |->
                        (IF item.rows[i].hang THEN Indent(depth) ELSE <<>>)
                        \o item.rows[i].txt]]
    ELSE LET b == LayoutBody(item.body, depth + 1, ln + 1)
         IN  [node  |-> Node(item.kind, item.name, item.bases, ln, ln + Len(b.lines), b.nodes),
              lines |-> <<Indent(depth) \o HeaderText(item)>> \o b.lines]
LayoutBody(items, depth, ln) ==
    IF items = <<>> THEN [nodes |-> <<>>, lines |-> <<>>]
    ELSE LET h == Layout(Head(items), depth, ln)
             t == LayoutBody(Tail(items), depth, ln + Len(h.lines))
         IN  [nodes |-> <<h.node>> \o t.nodes, lines |-> h.lines \o t.lines]

Blank(n) == [i \in 1..n |-> <<>>]

\* the text of a unit; it ends with a line break
SourceText(items, lead, trail) ==
    join(NL, Blank(lead) \o LayoutBody(items, 0, lead + 1).lines \o Blank(trail)) \o <<NL>>

\* ast.parse of that text
parse(items, lead) ==
    Node("Module", <<>>, <<>>, 0, 0, LayoutBody(items, 0, lead + 1).nodes)

Units ==
    { u \in [items : UNION { [1..n -> Catalogue] : n \in 0..MaxTop },
              lead : 0..MaxBlank, trail : 0..MaxBlank] :
        u.lead = 0 \/ u.trail = 0 }

\* ast.walk: breadth first, children in body order
RECURSIVE walk_from(_)
walk_from(todo) ==
    IF todo = <<>> THEN <<>>
    ELSE <<Head(todo)>> \o walk_from(Tail(todo) \o Head(todo).body)
walk(tree) == walk_from(<<tree>>)

IsFunction(node) == node.kind \in {"FunctionDef", "AsyncFunctionDef"}
IsClass(node) == node.kind = "ClassDef"

(***************************************************************************)
(* The instance.  __slots__ of ParserV2, one variable each; _node_mapping *)
(* is a slot that stays unset until a construction or a reload with       *)
(* exact = False fills it (built = FALSE is the unset slot).  An optional *)
(* str is a record: None has some = FALSE.                                *)
(***************************************************************************)
VARIABLES source_code, data, to_search_for, cls, exact, _node_mapping,
          gen, call_pc, subclasses, lines, queue, current_nodes, last

vars == <<source_code, data, to_search_for, cls, exact, _node_mapping,
          gen, call_pc, subclasses, lines, queue, current_nodes, last>>

None == [some |-> FALSE, v |-> <<>>]
Some(v) == [some |-> TRUE, v |-> v]

Unset == [built |-> FALSE, map |-> <<>>]

\* the dict comprehension over ast.walk: a later class of the same name wins
class_mapping(tree) ==
    LET w == walk(tree)
        classes == {i \in 1..Len(w) : IsClass(w[i])}
    IN  [built |-> TRUE,
         map   |-> [n \in {w[i].name : i \in classes} |->
                       w[CHOOSE i \in classes :
                            /\ w[i].name = n
                            /\ \A j \in classes : w[j].name = n => j <= i]]]

\* the slice taken from the parenthesis itself, not from the lexeme after it
filter_parent_classes_from_paren(text, mapping) ==
    LET parent_classes == PySlice(text, find(text, "("), rfind(text, ")"))
    IN  SelectSeq(split(parent_classes, ", "), LAMBDA p : p \in DOMAIN mapping)

filter_parent_classes(text, mapping) ==
    LET parent_classes == PySlice(text, find(text, "(") + 1, rfind(text, ")"))
    IN  SelectSeq(split(parent_classes, ", "), LAMBDA p : p \in DOMAIN mapping)

\* a turn that skips a class already collected
get_all_parent_classes_visited(q, nodes, text_lines, mapping) ==
    LET subclass == Head(q)
        rest == Tail(q)
    IN  IF \/ subclass \notin DOMAIN mapping
           \/ \E i \in 1..Len(nodes) : nodes[i] = mapping[subclass]
        THEN [queue |-> rest, current_nodes |-> nodes]
        ELSE LET new_parent_class == mapping[subclass]
                 text == At(text_lines, new_parent_class.lineno - 1)
             IN  [queue |-> rest \o filter_parent_classes(text, mapping),
                  current_nodes |-> Append(nodes, new_parent_class)]

\* one turn of the while loop of get_all_parent_classes, queue not empty
get_all_parent_classes(q, nodes, text_lines, mapping) ==
    LET subclass == Head(q)
        rest == Tail(q)
    IN  IF subclass \notin DOMAIN mapping
        THEN [queue |-> rest, current_nodes |-> nodes]
        ELSE LET new_parent_class == mapping[subclass]
                 text == At(text_lines, new_parent_class.lineno - 1)
             IN  [queue |-> rest \o filter_parent_classes(text, mapping),
                  current_nodes |-> Append(nodes, new_parent_class)]

(***************************************************************************)
(* parse_data.  The body of the generator, as the sequence of values it   *)
(* yields and the way it ends.  A frame is what the loops carry: out, the *)
(* values yielded so far; seen, already_searched of the exact branch; st, *)
(* "run" while the loops go on, "return" after a return statement, or the *)
(* exception that left them.  ctx holds the locals read, not written.     *)
(***************************************************************************)
Match(text, start) == [text |-> text, start |-> start]
Frame0 == [out |-> <<>>, seen |-> {}, st |-> "run"]
Yield(S, m, key) == [S EXCEPT !.out = Append(@, m), !.seen = @ \cup {key}]

\* for i in range(func_start, func_end), lines 126-146
RECURSIVE exact_func_lines(_, _, _, _)
exact_func_lines(S, ctx, func_node, i) ==
    LET func_start == func_node.lineno - 1
        func_end == func_node.end_lineno
        key == <<func_node.lineno, func_node.end_lineno>>
    IN  IF S.st # "run" \/ i >= func_end THEN S
        ELSE IF Cardinality(S.seen) = ctx.count THEN [S EXCEPT !.st = "return"]
        ELSE IF key \in S.seen THEN exact_func_lines(S, ctx, func_node, i + 1)
        ELSE IF ~InRange(ctx.new_lines, i) THEN [S EXCEPT !.st = "IndexError"]
        ELSE IF ctx.target = At(ctx.new_lines, i)
        THEN exact_func_lines(
                 Yield(S, Match(join(NL, PySlice(ctx.new_lines, func_start, func_end)),
                                func_start), key),
                 ctx, func_node, i + 1)
        ELSE exact_func_lines(S, ctx, func_node, i + 1)

\* for func_node in node.body, lines 114-125
RECURSIVE exact_class_body(_, _, _, _)
exact_class_body(S, ctx, node, k) ==
    LET start == node.lineno - 1
        end == node.end_lineno
    IN  IF S.st # "run" \/ k > Len(node.body) THEN S
        ELSE LET func_node == node.body[k]
             IN  IF /\ IsFunction(func_node)
                    /\ start <= func_node.lineno
                    /\ func_node.lineno < end
                 THEN exact_class_body(
                          exact_func_lines(S, ctx, func_node, func_node.lineno - 1),
                          ctx, node, k + 1)
                 ELSE exact_class_body(S, ctx, node, k + 1)

\* for i in range(start, end), lines 109-153
RECURSIVE exact_node_lines(_, _, _, _)
exact_node_lines(S, ctx, node, i) ==
    LET start == node.lineno - 1
        end == node.end_lineno
    IN  IF S.st # "run" \/ i >= end THEN S
        ELSE IF ~InRange(ctx.new_lines, i) THEN [S EXCEPT !.st = "IndexError"]
        ELSE IF ctx.target # strip(At(ctx.new_lines, i), Whitespace)
        THEN exact_node_lines(S, ctx, node, i + 1)
        ELSE IF ~startswith(ctx.target, "class ") /\ IsClass(node)
        THEN exact_node_lines(exact_class_body(S, ctx, node, 1), ctx, node, i + 1)
        ELSE IF Cardinality(S.seen) = ctx.count THEN [S EXCEPT !.st = "return"]
        ELSE IF <<start, end>> \in S.seen THEN exact_node_lines(S, ctx, node, i + 1)
        ELSE exact_node_lines(
                 Yield(S, Match(join(NL, PySlice(ctx.new_lines, start, end)), start),
                       <<start, end>>),
                 ctx, node, i + 1)

\* for node in ast.walk(self.data), lines 104-108
RECURSIVE exact_nodes(_, _, _)
exact_nodes(S, ctx, nodes) ==
    IF S.st # "run" \/ nodes = <<>> THEN S
    ELSE LET node == Head(nodes)
         IN  IF IsFunction(node) \/ IsClass(node)
             THEN exact_nodes(exact_node_lines(S, ctx, node, node.lineno - 1),
                              ctx, Tail(nodes))
             ELSE exact_nodes(S, ctx, Tail(nodes))

\* the "\n".join(lines).lstrip().rstrip() of line 103, split again
strip_source(text_lines) == splitlines(strip(join(NL, text_lines), Whitespace))

exact_search(target, count, text_lines, tree) ==
    exact_nodes(Frame0,
                [target |-> target, count |-> count, new_lines |-> strip_source(text_lines)],
                walk(tree))

Snippet(text_lines, node) ==
    Match(join(NL, PySlice(text_lines, node.lineno - 1, node.end_lineno)), node.lineno - 1)

\* for body_item in node.body, lines 170-183: no test of the counter in here
RECURSIVE name_class_body(_, _, _, _)
name_class_body(S, ctx, node, k) ==
    IF k > Len(node.body) THEN S
    ELSE LET body_item == node.body[k]
         IN  IF IsFunction(body_item) /\ body_item.name = ctx.target
             THEN name_class_body([S EXCEPT !.out = Append(@, Snippet(ctx.lines, body_item))],
                                  ctx, node, k + 1)
             ELSE name_class_body(S, ctx, node, k + 1)

\* for node in new_nodes, lines 167-169; already_searched is the length of out
RECURSIVE name_class_nodes(_, _, _)
name_class_nodes(S, ctx, new_nodes) ==
    IF S.st # "run" \/ new_nodes = <<>> THEN S
    ELSE IF Len(S.out) = ctx.count THEN [S EXCEPT !.st = "return"]
    ELSE name_class_nodes(name_class_body(S, ctx, Head(new_nodes), 1), ctx, Tail(new_nodes))

class_search(target, count, text_lines, new_nodes) ==
    name_class_nodes(Frame0, [target |-> target, count |-> count, lines |-> text_lines],
                     new_nodes)

\* for function in ast.walk(data), lines 185-199
RECURSIVE name_walk(_, _, _)
name_walk(S, ctx, nodes) ==
    IF S.st # "run" \/ nodes = <<>> THEN S
    ELSE IF Len(S.out) = ctx.count THEN [S EXCEPT !.st = "return"]
    ELSE LET function == Head(nodes)
         IN  IF (IsFunction(function) \/ IsClass(function)) /\ function.name = ctx.target
             THEN name_walk([S EXCEPT !.out = Append(@, Snippet(ctx.lines, function))],
                            ctx, Tail(nodes))
             ELSE name_walk(S, ctx, Tail(nodes))

name_search(target, count, text_lines, tree) ==
    name_walk(Frame0, [target |-> target, count |-> count, lines |-> text_lines], walk(tree))

(***************************************************************************)
(* parse_attributes.  index is a str or a dict with the keys "function"   *)
(* and "class", each present or not.  The result is the triple, or the    *)
(* exception the call raises.                                              *)
(***************************************************************************)
StrIndex(s) == [isdict |-> FALSE, s |-> s, function |-> None, class |-> None]
DictIndex(f, c) == [isdict |-> TRUE, s |-> <<>>, function |-> f, class |-> c]

Raise(e) == [err |-> e, ret |-> <<>>, parent_class |-> None, exact |-> FALSE]
Triple(ret, parent_class, ex) ==
    [err |-> "none", ret |-> ret, parent_class |-> parent_class, exact |-> ex]

\* list.remove(x): the list without its first x
RECURSIVE remove(_, _)
remove(list, x) ==
    IF Head(list) = x THEN Tail(list) ELSE <<Head(list)>> \o remove(Tail(list), x)

parse_attributes(index, ex) ==
    IF ex /\ index.isdict THEN Raise("ValueError")
    ELSE IF ex THEN Triple(index.s, None, ex)
    ELSE IF index.isdict
    THEN IF index.function.some
         THEN Triple(strip(index.function.v, {"(", ")"}), index.class, ex)
         ELSE IF index.class.some
         THEN Triple(strip(index.class.v, {"(", ")"}), None, ex)
         ELSE Raise("KeyError")
    ELSE LET split_index == split(index.s, ".")
             has_prefix == startswith(split_index[1], "discord")
             removable == \E i \in 1..Len(split_index) : split_index[i] = <<"discord">>
             attributes == IF has_prefix /\ removable
                           THEN remove(split_index, <<"discord">>)
                           ELSE split_index
         IN  IF has_prefix /\ ~removable THEN Raise("ValueError")
             ELSE IF Len(attributes) = 2
             THEN IF attributes[1] = <<>> THEN Raise("IndexError")
                  ELSE Triple(strip(attributes[2], {"(", ")"}),
                              IF attributes[1][1] \in Uppercase
                              THEN Some(attributes[1]) ELSE None,
                              ex)
             ELSE IF Len(attributes) = 1
             THEN Triple(strip(attributes[1], {"(", ")"}), None, ex)
             ELSE Raise("ValueError")

(***************************************************************************)
(* Operations.                                                             *)
(***************************************************************************)
MaxCount == 2
MaxSeeds == 2

\* more nodes than get_all_parent_classes collects from these units when it ends
NodeCap == MaxSeeds * (2 ^ MaxTop) + 1

NameTargets == {<<"foo">>, <<"A">>}
ClassArgs == {None, Some(<<"A">>), Some(<<"B">>)}
ExactTargets == {<<"return 1">>, <<"1">>, <<"class ", "A", ":">>, <<"pass">>}

Queries ==
    { [target |-> t, cls |-> c, exact |-> FALSE] : t \in NameTargets, c \in ClassArgs }
    \cup { [target |-> t, cls |-> None, exact |-> TRUE] : t \in ExactTargets }
    \cup { [target |-> <<"return 1">>, cls |-> Some(<<"A">>), exact |-> TRUE] }

NoGen ==
    [pc |-> "none", count |-> 0, allow_parent_class |-> FALSE, exact |-> FALSE,
     target |-> <<>>, cls |-> None, pending |-> <<>>, end |-> "done", out |-> <<>>,
     read_mapping |-> FALSE]

NoCall == [called |-> FALSE, instance |-> FALSE, index |-> StrIndex(<<>>),
           exact |-> FALSE, result |-> Raise("none")]

\* ParserV2(source_code, to_search_for, cls, exact) on a unit
Construct(u, q) ==
    /\ source_code = SourceText(u.items, u.lead, u.trail)
    /\ data = parse(u.items, u.lead)
    /\ to_search_for = q.target
    /\ cls = q.cls
    /\ exact = q.exact
    /\ _node_mapping = IF ~q.exact THEN class_mapping(parse(u.items, u.lead)) ELSE Unset
    /\ gen = NoGen
    /\ call_pc = "idle" /\ subclasses = <<>> /\ lines = <<>>
    /\ queue = <<>> /\ current_nodes = <<>>
    /\ last = NoCall

Init == \E u \in Units, q \in Queries : Construct(u, q)

\* a reload that never builds the mapping
_reload_keeps_mapping(ret, parent_class, ex) ==
    /\ to_search_for' = ret
    /\ cls' = parent_class
    /\ exact' = ex
    /\ _node_mapping' = _node_mapping

_reload(ret, parent_class, ex) ==
    /\ to_search_for' = ret
    /\ cls' = parent_class
    /\ exact' = ex
    /\ _node_mapping' = IF ~ex THEN class_mapping(data) ELSE _node_mapping

\* parser.parse_data(count, allow_parent_class): the generator object; no code runs
parse_data(count, allow_parent_class) ==
    /\ gen.pc = "none"
    /\ gen' = [NoGen EXCEPT !.pc = "created", !.count = count,
                            !.allow_parent_class = allow_parent_class]
    /\ UNCHANGED <<source_code, data, to_search_for, cls, exact, _node_mapping,
                   call_pc, subclasses, lines, queue, current_nodes, last>>

\* the generator with the values `S` holds still to hand out, one per next()
Deliver(g, S) ==
    LET end == IF S.st \in {"run", "return"} THEN "done" ELSE S.st
    IN  IF S.out = <<>> THEN [g EXCEPT !.pc = end]
        ELSE [g EXCEPT !.pc = "suspended", !.out = Append(@, Head(S.out)),
                       !.pending = Tail(S.out), !.end = end]

\* the first next(): lines 94-166, up to the first yield or the call of
\* get_all_parent_classes
Start ==
    /\ gen.pc = "created"
    /\ LET text_lines == splitlines(source_code)
           g == [gen EXCEPT !.exact = exact, !.target = to_search_for, !.cls = cls]
       IN  IF exact
           THEN /\ gen' = Deliver(g, exact_search(to_search_for, gen.count, text_lines, data))
                /\ UNCHANGED <<call_pc, subclasses, lines, queue, current_nodes>>
           ELSE IF ~cls.some
           THEN /\ gen' = Deliver(g, name_search(to_search_for, gen.count, text_lines, data))
                /\ UNCHANGED <<call_pc, subclasses, lines, queue, current_nodes>>
           ELSE IF ~_node_mapping.built
           THEN /\ gen' = [g EXCEPT !.pc = "AttributeError"]
                /\ UNCHANGED <<call_pc, subclasses, lines, queue, current_nodes>>
           ELSE IF cls.v \notin DOMAIN _node_mapping.map
           THEN /\ gen' = [g EXCEPT !.pc = "done", !.read_mapping = TRUE]
                /\ UNCHANGED <<call_pc, subclasses, lines, queue, current_nodes>>
           ELSE LET node == _node_mapping.map[cls.v]
                IN  IF gen.allow_parent_class
                    THEN /\ gen' = [g EXCEPT !.pc = "get_all_parent_classes",
                                             !.read_mapping = TRUE]
                         /\ subclasses' = filter_parent_classes(
                                              At(text_lines, node.lineno - 1), _node_mapping.map)
                         /\ lines' = text_lines
                         /\ queue' = subclasses'
                         /\ current_nodes' = <<node>>
                         /\ call_pc' = "loop"
                    ELSE /\ gen' = Deliver([g EXCEPT !.read_mapping = TRUE],
                                           class_search(to_search_for, gen.count, text_lines,
                                                        <<node>>))
                         /\ UNCHANGED <<call_pc, subclasses, lines, queue, current_nodes>>
    /\ UNCHANGED <<source_code, data, to_search_for, cls, exact, _node_mapping, last>>

\* while queue: one turn
Loop ==
    /\ call_pc = "loop"
    /\ queue # <<>>
    /\ Len(current_nodes) < NodeCap
    /\ \E r \in {get_all_parent_classes(queue, current_nodes, lines, _node_mapping.map)} :
           /\ queue' = r.queue
           /\ current_nodes' = r.current_nodes
    /\ UNCHANGED <<source_code, data, to_search_for, cls, exact, _node_mapping,
                   gen, call_pc, subclasses, lines, last>>

\* while queue: the queue is empty, return current_nodes
Return ==
    /\ call_pc = "loop"
    /\ queue = <<>>
    /\ call_pc' = "returned"
    /\ UNCHANGED <<source_code, data, to_search_for, cls, exact, _node_mapping,
                   gen, subclasses, lines, queue, current_nodes, last>>

\* lines 166-183, from the return of get_all_parent_classes to the first yield
Resume ==
    /\ gen.pc = "get_all_parent_classes"
    /\ call_pc = "returned"
    /\ gen' = Deliver(gen, class_search(gen.target, gen.count, splitlines(source_code),
                                        current_nodes))
    /\ call_pc' = "idle"
    /\ UNCHANGED <<source_code, data, to_search_for, cls, exact, _node_mapping,
                   subclasses, lines, queue, current_nodes, last>>

\* a later next(): the next value, or the end
NextValue ==
    /\ gen.pc = "suspended"
    /\ gen' = IF gen.pending = <<>> THEN [gen EXCEPT !.pc = gen.end]
              ELSE [gen EXCEPT !.out = Append(@, Head(gen.pending)),
                               !.pending = Tail(gen.pending)]
    /\ UNCHANGED <<source_code, data, to_search_for, cls, exact, _node_mapping,
                   call_pc, subclasses, lines, queue, current_nodes, last>>

\* ParserV2.parse_attributes(index, exact, instance=None), once
call_static(index, ex) ==
    /\ ~last.called
    /\ last' = [called |-> TRUE, instance |-> FALSE, index |-> index, exact |-> ex,
                result |-> parse_attributes(index, ex)]
    /\ UNCHANGED <<source_code, data, to_search_for, cls, exact, _node_mapping,
                   gen, call_pc, subclasses, lines, queue, current_nodes>>

\* the instance reconfigured before the input is validated
call_instance_reload_first(index, ex) ==
    /\ gen.pc # "get_all_parent_classes"
    /\ last' = [called |-> TRUE, instance |-> TRUE, index |-> index,
                exact |-> ex, result |-> parse_attributes(index, ex)]
    /\ _reload(IF index.isdict THEN index.function.v ELSE index.s, None, ex)
    /\ UNCHANGED <<source_code, data, gen, call_pc, subclasses, lines, queue, current_nodes>>

\* parser.parse_attributes(index, exact, instance=parser), between two next()
call_instance(index, ex) ==
    /\ gen.pc # "get_all_parent_classes"
    /\ LET r == parse_attributes(index, ex)
       IN  /\ last' = [called |-> TRUE, instance |-> TRUE, index |-> index,
                       exact |-> ex, result |-> r]
           /\ IF r.err = "none"
              THEN _reload(r.ret, r.parent_class, r.exact)
              ELSE UNCHANGED <<to_search_for, cls, exact, _node_mapping>>
    /\ UNCHANGED <<source_code, data, gen, call_pc, subclasses, lines, queue, current_nodes>>

Next ==
    \/ \E count \in 1..MaxCount, allow_parent_class \in BOOLEAN :
           parse_data(count, allow_parent_class)
    \/ Start
    \/ Loop
    \/ Return
    \/ Resume
    \/ NextValue

\* one instance, one query, one match sequence
Spec == Init /\ [][Next]_vars

(***************************************************************************)
(* Reloads: an instance made by create_class, reconfigured in place by    *)
(* parse_attributes at any time, a match sequence in flight or not.       *)
(***************************************************************************)
MaxReloadTop == 1

ReloadUnits == {u \in Units : Len(u.items) <= MaxReloadTop /\ u.lead = 0 /\ u.trail = 0}

ReloadInputs ==
    { StrIndex(<<"foo">>), StrIndex(<<"A", ".", "foo", "(", ")">>),
      StrIndex(<<"foo", ".", "foo", ".", "foo">>), StrIndex(<<"return 1">>),
      DictIndex(Some(<<"foo">>), Some(<<"A">>)) }

\* ParserV2.create_class(source_code, index, exact)
create_class(u, index, ex) ==
    LET r == parse_attributes(index, ex)
    IN  /\ r.err = "none"
        /\ Construct(u, [target |-> r.ret, cls |-> r.parent_class, exact |-> r.exact])

InitReload ==
    \E u \in ReloadUnits, index \in ReloadInputs, ex \in BOOLEAN : create_class(u, index, ex)

NextReload ==
    \/ \E index \in ReloadInputs, ex \in BOOLEAN : call_instance(index, ex)
    \/ \E count \in 1..MaxCount, allow_parent_class \in BOOLEAN :
           parse_data(count, allow_parent_class)
    \/ Start
    \/ Loop
    \/ Return
    \/ Resume
    \/ NextValue

SpecReload == InitReload /\ [][NextReload]_vars

(***************************************************************************)
(* parse_attributes as a static method, on every short str and dict.      *)
(***************************************************************************)
MaxIndexLen == 5

Alphabet == {"discord", "foo", "Embed", ".", "(", ")"}

AttrInputs ==
    { StrIndex(s) : s \in UNION { [1..n -> Alphabet] : n \in 0..MaxIndexLen } }
    \cup { DictIndex(f, c) : f \in {None, Some(<<"foo">>), Some(<<"foo", "(", ")">>)},
                             c \in {None, Some(<<"Embed">>)} }

InitAttr ==
    Construct([items |-> <<>>, lead |-> 0, trail |-> 0],
              [target |-> <<"foo">>, cls |-> None, exact |-> FALSE])

NextAttr ==
    /\ ~last.called
    /\ \E index \in AttrInputs, ex \in BOOLEAN : call_static(index, ex)

SpecAttr == InitAttr /\ [][NextAttr]_vars

(***************************************************************************)
(* get_all_parent_classes called with any list of names.  The loop is     *)
(* straight-line code of one thread: a turn that can be taken is taken.   *)
(***************************************************************************)
SeedNames == {<<"A">>, <<"B">>, <<"object">>}

\* no statement twice in a unit, no name twice on a header
Distinct(s) == \A i, j \in 1..Len(s) : s[i] = s[j] => i = j
ParentUnits == {u \in Units : u.lead = 0 /\ u.trail = 0 /\ Distinct(u.items)}
Seeds == {q \in UNION { [1..n -> SeedNames] : n \in 0..MaxSeeds } : Distinct(q)}

InitParents ==
    \E u \in ParentUnits, seeds \in Seeds :
        /\ source_code = SourceText(u.items, u.lead, u.trail)
        /\ data = parse(u.items, u.lead)
        /\ to_search_for = <<"foo">> /\ cls = None /\ exact = FALSE
        /\ _node_mapping = class_mapping(parse(u.items, u.lead))
        /\ gen = NoGen /\ last = NoCall
        /\ call_pc = "loop" /\ subclasses = seeds /\ queue = seeds
        /\ lines = splitlines(SourceText(u.items, u.lead, u.trail))
        /\ current_nodes = <<>>

NextParents == Loop \/ Return

SpecParents == InitParents /\ [][NextParents]_vars /\ WF_vars(Loop) /\ WF_vars(Return)

(***************************************************************************)
(* The properties.  What they speak of is read off the source text and    *)
(* the tree, not off the operators above: the lines of the text, the      *)
(* nodes of the tree, the bases a class node carries.                     *)
(***************************************************************************)
Lines == splitlines(source_code)
Nodes == walk(data)
DefNodes ==
    LET ns == Nodes
    IN  {ns[i] : i \in {j \in 1..Len(ns) : IsFunction(ns[j]) \/ IsClass(ns[j])}}
ClassNodes == {n \in DefNodes : IsClass(n)}
FunctionNodes == {n \in DefNodes : IsFunction(n)}
Methods(c) == {c.body[k] : k \in {j \in 1..Len(c.body) : IsFunction(c.body[j])}}
Yielded == {gen.out[i] : i \in 1..Len(gen.out)}

\* the node's own lines S..E of the text, and S - 1
SourceSnippet(n) ==
    [text |-> join(NL, SubSeq(Lines, n.lineno, n.end_lineno)), start |-> n.lineno - 1]

\* the literal line is one of the node's lines, surrounding blanks apart
HasLine(n, line) ==
    \E l \in n.lineno..n.end_lineno : strip(Lines[l], Whitespace) = line

Started == gen.pc \notin {"none", "created"}
Finished == gen.pc \in {"done", "IndexError", "AttributeError"}

\* the class a name denotes: the last definition of that name in the tree
Denotes(name) ==
    LET cs == ClassNodes
    IN  CHOOSE c \in cs :
            /\ c.name = name
            /\ \A d \in cs : d.name = name => d.lineno <= c.lineno
ClassNames == {c.name : c \in ClassNodes}
Declared(name) ==
    LET c == Denotes(name)
    IN  {c.bases[i] : i \in 1..Len(c.bases)}
DeclaredBases(name) == {<<b>> : b \in Declared(name)} \cap ClassNames

RECURSIVE Closure(_)
Closure(S) ==
    LET T == S \cup UNION {DeclaredBases(n) : n \in S}
    IN  IF T = S THEN S ELSE Closure(T)
Ancestors(name) == Closure(DeclaredBases(name))

\* every match of the running query, whatever the count
AllMatches ==
    IF gen.exact
    THEN IF startswith(gen.target, "class ")
         THEN {SourceSnippet(n) : n \in {d \in DefNodes : HasLine(d, gen.target)}}
         ELSE {SourceSnippet(n) : n \in {f \in FunctionNodes : HasLine(f, gen.target)}}
    ELSE IF ~gen.cls.some
    THEN {SourceSnippet(n) : n \in {d \in DefNodes : d.name = gen.target}}
    ELSE IF gen.cls.v \notin ClassNames THEN {}
    ELSE LET scope == IF gen.allow_parent_class
                      THEN {gen.cls.v} \cup Ancestors(gen.cls.v)
                      ELSE {gen.cls.v}
         IN  {SourceSnippet(f) :
                 f \in {m \in UNION {Methods(Denotes(c)) : c \in scope} :
                           m.name = gen.target}}

\* C1: the sequence parse_data(count = N) produces has at most N values, and
\* fewer than N only when it holds every match there is in the source.
C1_BoundedCardinality ==
    Started =>
        /\ Len(gen.out) <= gen.count
        /\ (gen.pc = "done" /\ Len(gen.out) < gen.count) => AllMatches \subseteq Yielded

\* a name query in a class that lacks the target while a declared base has it
C2_Case ==
    /\ Started /\ ~gen.exact /\ gen.cls.some
    /\ gen.cls.v \in ClassNames
    /\ \A m \in Methods(Denotes(gen.cls.v)) : m.name # gen.target
    /\ \E a \in DeclaredBases(gen.cls.v) :
           \E m \in Methods(Denotes(a)) : m.name = gen.target

\* C2: the queried class names a base on its header line, the base defines the
\* target in its body and the class does not: with ancestor search the finished
\* sequence holds the base's function, without it the sequence is empty.
C2_AncestorScoping ==
    C2_Case =>
        /\ (gen.allow_parent_class /\ gen.pc = "done") =>
               \A a \in DeclaredBases(gen.cls.v) :
                   \A m \in Methods(Denotes(a)) :
                       m.name = gen.target => SourceSnippet(m) \in Yielded
        /\ ~gen.allow_parent_class => gen.pc = "done" /\ gen.out = <<>>

C2_Witness ==
    /\ C2_Case /\ gen.allow_parent_class /\ gen.pc = "done"
    /\ gen.out # <<>> /\ Len(current_nodes) >= 2

\* C3: every value yielded is the text of the lines S..E of a function or class
\* node together with S - 1, and no line is read past the end of the lines.
C3_LineAccounting ==
    /\ gen.pc # "IndexError"
    /\ \A m \in Yielded : \E n \in DefNodes : m = SourceSnippet(n)

\* the (start, end) line range of a yielded value
RangeOf(m) == <<m.start, m.start + Len(split(m.text, NL))>>

\* C4: in exact mode no line range is yielded twice in one sequence.
C4_ExactDedup ==
    gen.exact =>
        \A i, j \in 1..Len(gen.out) : i # j => RangeOf(gen.out[i]) # RangeOf(gen.out[j])

\* C5: in exact mode, a literal line (no class header) found in a method of a
\* class makes the finished sequence hold the method's text and start line,
\* unless the count was used up, and hold neither the bare line nor the class.
C5_MethodWidening ==
    (Finished /\ gen.exact /\ ~startswith(gen.target, "class ")) =>
        \A c \in ClassNodes :
            \A m \in Methods(c) :
                HasLine(m, gen.target) =>
                    /\ SourceSnippet(m) \in Yielded \/ Len(gen.out) >= gen.count
                    /\ \A y \in Yielded :
                           /\ strip(y.text, Whitespace) # gen.target
                           /\ y # SourceSnippet(c)

\* the running query has nothing to find
C8_Miss ==
    IF gen.exact
    THEN \A l \in 1..Len(Lines) : strip(Lines[l], Whitespace) # gen.target
    ELSE \/ gen.cls.some /\ gen.cls.v \notin ClassNames
         \/ \A n \in DefNodes : n.name # gen.target

\* C8: a query with nothing to find ends normally with an empty sequence: an
\* enclosing class that is no class of the tree, a name nothing in the tree
\* bears, an exact line that is no line of the text.
C8_MissIsEmpty ==
    (Started /\ gen.pc # "get_all_parent_classes" /\ C8_Miss) =>
        gen.pc = "done" /\ gen.out = <<>>

\* the results the dotted-path rules allow for the string s
C6_Claimed(s) ==
    LET all == split(s, ".")
        segments == IF all[1] = <<"discord">> THEN Tail(all) ELSE all
        target(seg) == strip(seg, {"(", ")"})
    IN  IF Len(segments) = 1 THEN {Triple(target(segments[1]), None, FALSE)}
        ELSE IF Len(segments) = 2
        THEN {Triple(target(segments[2]),
                     IF segments[1] # <<>> /\ segments[1][1] \in Uppercase
                     THEN Some(segments[1]) ELSE None,
                     FALSE)}
        ELSE IF Len(segments) > 2 THEN {Raise("ValueError")}
        ELSE {Raise("ValueError"), Triple(<<>>, None, FALSE)}

\* C6: for a dotted path with exact = False, parse_attributes drops a leading
\* "discord" segment, then one segment is the target with no class, two are
\* class and target when the first starts with an uppercase letter and the
\* target alone otherwise, more raise ValueError; call parentheses are taken
\* off the target; nothing but ValueError is ever raised.
C6_DottedPath ==
    (last.called /\ ~last.exact /\ ~last.index.isdict) =>
        last.result \in C6_Claimed(last.index.s)

\* C7: exact = True with a dict raises ValueError, and a call that raises, for
\* that or for a rejected path, leaves the instance it was given as it was.
C7_RejectedCallLeavesInstance ==
    /\ [](last.called /\ last.exact /\ last.index.isdict => last.result.err = "ValueError")
    /\ [][(last'.instance /\ last'.result.err # "none") =>
              UNCHANGED <<to_search_for, cls, exact, _node_mapping>>]_vars

C7_Witness ==
    /\ last.instance /\ last.exact /\ last.index.isdict
    /\ last.result.err = "ValueError"
    /\ to_search_for = <<"return 1">> /\ ~exact /\ gen.pc = "suspended"

\* a class the seeds reach through declared bases is its own ancestor
CycleReachable ==
    \E g \in {[n \in ClassNames |-> DeclaredBases(n)]} :
        LET Reach[S \in SUBSET DOMAIN g] ==
                LET T == S \cup UNION {g[n] : n \in S}
                IN  IF T = S THEN S ELSE Reach[T]
        IN  \E n \in Reach[{subclasses[i] : i \in 1..Len(subclasses)} \cap DOMAIN g] :
                n \in Reach[g[n]]

\* C9: the loop of get_all_parent_classes ends when no class the seeds reach
\* is on a cycle of declared bases, and never ends when one is.
C9_Termination ==
    /\ (~CycleReachable) ~> (call_pc = "returned")
    /\ [](CycleReachable => call_pc # "returned")

C9_Witness ==
    /\ call_pc = "returned" /\ ~CycleReachable
    /\ Len(current_nodes) >= 2 /\ current_nodes[1] # current_nodes[2]

\* C10: while exact is False the mapping is built and maps every class name of
\* the tree to a class node of the tree bearing it; no match sequence fails
\* for want of the mapping, and one begun with exact True never reads it.
C10_MappingBuiltWhenRead ==
    /\ ~exact =>
           /\ _node_mapping.built
           /\ DOMAIN _node_mapping.map = ClassNames
           /\ \A n \in ClassNames :
                  _node_mapping.map[n] \in ClassNodes /\ _node_mapping.map[n].name = n
    /\ gen.pc # "AttributeError"
    /\ gen.exact => ~gen.read_mapping

C10_Witness ==
    /\ gen.exact /\ gen.pc = "done" /\ last.instance /\ last.result.err = "none"
    /\ ~exact /\ _node_mapping.built /\ ClassNames # {}
====
